---- MODULE Spec2Model ----
(***************************************************************************)
(* A model of poissimple (src/src/poissimple.js, the Poissimple            *)
(* constructor and its prototype, lines 99-238), a naive Poisson disk      *)
(* sampler.                                                                *)
(*                                                                         *)
(* Arithmetic.  The program computes in IEEE doubles; the model computes   *)
(* exactly, over rationals.  The random source handed to the constructor   *)
(* has a resolution, steps: rng() returns k / steps for k in 0 .. steps-1  *)
(* (the source's contract is [0,1)).  Extent bounds are integers.  A       *)
(* coordinate is stored multiplied by steps, so that                       *)
(* lower + (upper - lower) * u is the integer                              *)
(* lower*steps + (upper - lower)*k.  A distance is stored as the square    *)
(* of the scaled distance, an integer; squaring is monotone on the         *)
(* non-negative reals, so Math.min and the two > comparisons of next()     *)
(* give the same answers on squares.  Math.PI is the rational 355/113;     *)
(* the radius is kept as the fraction radiusSq.num / radiusSq.den of its   *)
(* scaled square.  Dimensions are 1 and 2, where (V/n)^(2/d) is rational.  *)
(* Two distances that are equal as reals are equal here; as doubles they   *)
(* may differ in the last place.                                           *)
(*                                                                         *)
(* Specifications.  Spec drives one sampler through every operation; its   *)
(* configurations are those the README allows: n and tries positive        *)
(* integers, the extent a flat pair for one dimension and one pair per     *)
(* axis otherwise, lower < upper.  WorkSpec tallies the work of fill().    *)
(* RepelSpec is the boundary-repulsion scenario on a finer grid.           *)
(* DegenerateSpec and ExtentFormSpec construct samplers from               *)
(* configurations outside the README's: n = 0, dimensions = 0, an axis of  *)
(* zero span, a 1-D extent written as an array of arrays.  VariantSpec     *)
(* runs the older variant, PoisSimple (lines 2-82), beside the newer one.  *)
(***************************************************************************)
EXTENDS Integers, Sequences, FiniteSets, TLC

VARIABLES
    ps,         \* the sampler object: the fields the constructor sets
    points,     \* this.points, the accepted points in insertion order
    pc,         \* where the caller is: "idle", or "fill" inside fill()'s loop
    lastOp,     \* the operation that has just run: "new", "next", "fillNext"
                \* (a next() that fill() called), "fill" (fill() returned),
                \* "getPoints", "addPoint"; "none" once its record is dropped
    arg,        \* its argument (addPoint's point)
    ret,        \* what it returned (or threw)
    run,        \* if it ran next()'s loop: the points before, the candidates
                \* drawn and whether the loop left by break
    nextCalls,  \* how many times the caller has called next(), counted as
                \* long as it has not called fill() (0 from then on)
    filled,     \* whether the caller ever called fill()
    fellBack,   \* whether some generation step so far ended without break,
                \* pushing its best candidate
    old,        \* the older variant, PoisSimple (lines 2-82), run beside the
                \* sampler on the same random values: its fields, its points,
                \* what its last next() returned, and whether that call was
                \* left wanting values or left values over.  Kept by
                \* VariantSpec only; elsewhere there is no older sampler
    work        \* a tally of the fill() in progress or just returned: the
                \* number of points held when it was called, the generation
                \* steps it has run and the candidates those have drawn.  Kept
                \* by WorkSpec only; Spec leaves it at NoWork

vars ==
    <<ps, points, pc, lastOp, arg, ret, run, nextCalls, filled, fellBack, old,
      work>>

----------------------------------------------------------------------------
(* Bounds of the model *)

\* the resolution of the random source of a 2-D sampler; a 1-D sampler's
\* source is twice as fine
Grid == 2
\* the largest options.n
MaxN == 2
\* the largest options.tries
MaxTries == 2

\* the resolution of the random source in the boundary-repulsion scenario:
\* fine enough for a candidate off the edge yet within radius/4 of it
EdgeGrid == 8

\* direct next() calls the caller makes: enough to pass n by two
MaxCalls == MaxN + 2

----------------------------------------------------------------------------
(* Program constants *)

DefaultN == 10
DefaultDim == 2
DefaultTries == 30
\* Math.PI as a fraction
PiNum == 355
PiDen == 113
\* Infinity and -Infinity among squared distances, which are all >= 0 and
\* far below PosInfinity
PosInfinity == 1000000
NegInfinity == -1
\* NaN among volumes and distances: what arithmetic on undefined or on an
\* array gives.  No number is equal to it.
NaN == -2

----------------------------------------------------------------------------
(* JavaScript values *)

Null == [kind |-> "null", val |-> <<>>]
Undefined == [kind |-> "undefined", val |-> <<>>]
TypeError == [kind |-> "TypeError", val |-> <<>>]
Point(p) == [kind |-> "point", val |-> p]
PointList(l) == [kind |-> "points", val |-> l]
\* the options object handed to the constructor
OptionsArg(o) == [kind |-> "options", val |-> o]

\* Math.min: NaN if either argument is NaN
Min2(a, b) == IF a = NaN \/ b = NaN THEN NaN ELSE IF a <= b THEN a ELSE b
Abs(x) == IF x < 0 THEN -x ELSE x

----------------------------------------------------------------------------
(* The constructor *)

DefaultExtent(dim) == [i \in 1..dim |-> <<-1, 1>>]

\* const [lower, upper] = bounds gives two numbers.  An entry of this.extent
\* is a pair of numbers, except that line 104 wraps whatever a 1-D caller
\* gave: an array of arrays [[l, u]] becomes [[[l, u]]], whose one entry has
\* the array [l, u] as lower and undefined as upper.
IsNumberPair(bounds) == Len(bounds) = 2

NumericExtent(extent) == \A i \in 1..Len(extent) : IsNumberPair(extent[i])

\* what + makes of an array and NaN: the array joined by commas, then "NaN"
ArrayPlusNaN(array) ==
    ToString(array[1]) \o "," \o ToString(array[2]) \o "NaN"

\* volume = product of (upper - lower) over the extent
RECURSIVE VolumeFrom(_, _)
VolumeFrom(extent, i) ==
    IF i > Len(extent) THEN 1
    ELSE (extent[i][2] - extent[i][1]) * VolumeFrom(extent, i + 1)

\* undefined - array is NaN, and so is every product with it
ComputeExtentVolume(extent) ==
    IF NumericExtent(extent) THEN VolumeFrom(extent, 1) ELSE NaN

\* radius = PI/4 * (volume/n)^(1/dim), as the fraction of its scaled square:
\* radius^2 * steps^2 = PI^2 * steps^2 * volume^(2/dim) / (16 * n^(2/dim))
ComputeLowerDistance(volume, n, dim, steps) ==
    LET e == 2 \div dim
    IN  IF volume = NaN THEN [num |-> NaN, den |-> 1]
        ELSE [num |-> PiNum * PiNum * steps * steps * volume ^ e,
              den |-> PiDen * PiDen * 16 * n ^ e]

\* options.extent is [form |-> "none"] when absent, [form |-> "flat", pair |-> <<l, u>>]
\* for the 1-D array of two numbers, [form |-> "nested", pairs |-> << <<l, u>>, ... >>]
\* for the array of arrays.  rng is [steps |-> the resolution of the source].
Poissimple(options, rng) ==
    LET n == IF options.n = 0 THEN DefaultN ELSE options.n
        dim == IF options.dimensions = 0 THEN DefaultDim ELSE options.dimensions
        extent ==
            IF dim = 1 /\ options.extent.form # "none"
            THEN IF options.extent.form = "flat"
                 THEN << options.extent.pair >>
                 ELSE << options.extent.pairs >>
            ELSE IF options.extent.form # "none" THEN options.extent.pairs
                 ELSE DefaultExtent(dim)
        tries == IF options.tries = 0 THEN DefaultTries ELSE options.tries
        volume == ComputeExtentVolume(extent)
    IN  [n |-> n, dim |-> dim, extent |-> extent, tries |-> tries,
         rng |-> rng,
         repulsiveBoundary |-> options.repulsiveBoundary,
         volume |-> volume,
         radiusSq |-> ComputeLowerDistance(volume, n, dim, rng.steps),
         \* options.periodic is never read: kept to say what the caller asked for
         periodicOption |-> options.periodic,
         \* how the caller wrote options.extent: "none", "flat" or "nested"
         extentForm |-> options.extent.form]

----------------------------------------------------------------------------
(* Sampling and distances *)

\* SampleUniform starting from the upper bound instead of the lower
SampleUniformFromUpper(s, us) ==
    [i \in 1..Len(s.extent) |->
        s.extent[i][2] * s.rng.steps
        + (s.extent[i][2] - s.extent[i][1]) * us[i]]

\* one candidate from one rng() value per axis: us[i] is k, for rng() = k / steps.
\* Where bounds[0] is an array and bounds[1] undefined, the product is NaN and
\* the sum a string.
SampleUniform(s, us) ==
    [i \in 1..Len(s.extent) |->
        IF IsNumberPair(s.extent[i])
        THEN s.extent[i][1] * s.rng.steps
             + (s.extent[i][2] - s.extent[i][1]) * us[i]
        ELSE ArrayPlusNaN(s.extent[i][1])]

\* Math.hypot over Array(this.dim) of differences, squared
RECURSIVE SumSquares(_, _, _, _)
SumSquares(point1, point2, i, dim) ==
    IF i > dim THEN 0
    ELSE (point2[i] - point1[i]) * (point2[i] - point1[i])
         + SumSquares(point1, point2, i + 1, dim)

\* a coordinate sampled on an axis that is not a pair of numbers is a string,
\* its difference NaN, and Math.hypot of that NaN
Distance(s, point1, point2) ==
    IF NumericExtent(s.extent) THEN SumSquares(point1, point2, 1, s.dim)
    ELSE NaN

RECURSIVE MinDistanceFrom(_, _, _, _)
MinDistanceFrom(s, pts, candidate, i) ==
    IF i > Len(pts) THEN PosInfinity
    ELSE Min2(Distance(s, pts[i].val, candidate),
              MinDistanceFrom(s, pts, candidate, i + 1))

\* DistanceToExisting with minDistance starting at 0 instead of Infinity
DistanceToExistingFromZero(s, pts, candidate) ==
    Min2(0, MinDistanceFrom(s, pts, candidate, 1))

DistanceToExisting(s, pts, candidate) == MinDistanceFrom(s, pts, candidate, 1)

\* the scaled (not squared) distance to the nearest edge of the extent
RECURSIVE MinBoundaryFrom(_, _, _)
MinBoundaryFrom(s, candidate, i) ==
    IF i > Len(candidate) THEN PosInfinity
    ELSE Min2(Min2(Abs(candidate[i] - s.extent[i][1] * s.rng.steps),
                   Abs(s.extent[i][2] * s.rng.steps - candidate[i])),
              MinBoundaryFrom(s, candidate, i + 1))

DistanceToBoundary(s, candidate) ==
    IF NumericExtent(s.extent) THEN MinBoundaryFrom(s, candidate, 1) ELSE NaN

\* (2 * b)^2 for a boundary distance b
DoubledSquared(b) == IF b = NaN THEN NaN ELSE (2 * b) * (2 * b)

\* EffectiveDistance that never folds the boundary distance in
EffectiveDistanceNoBoundary(s, pts, candidate) ==
    DistanceToExisting(s, pts, candidate)

\* EffectiveDistance with the boundary distance not doubled
EffectiveDistanceUndoubled(s, pts, candidate) ==
    LET d == DistanceToExisting(s, pts, candidate)
        b == DistanceToBoundary(s, candidate)
    IN  IF s.repulsiveBoundary THEN Min2(d, b * b) ELSE d

\* distToNearest of one candidate: lines 201-206
EffectiveDistance(s, pts, candidate) ==
    LET d == DistanceToExisting(s, pts, candidate)
        b == DistanceToBoundary(s, candidate)
    IN  IF s.repulsiveBoundary THEN Min2(d, DoubledSquared(b)) ELSE d

\* ExceedsRadius against half the radius
ExceedsRadiusHalved(s, d) ==
    d = PosInfinity \/ 4 * d * s.radiusSq.den > s.radiusSq.num

\* distToNearest > this.radius
ExceedsRadius(s, d) ==
    /\ d # NaN /\ s.radiusSq.num # NaN
    /\ d = PosInfinity \/ d * s.radiusSq.den > s.radiusSq.num

\* ExceedsLargest with >= in place of >: the last of tied candidates wins
ExceedsLargestOrEqual(d, largestDist) == d >= largestDist

\* distToNearest > largestDist
ExceedsLargest(d, largestDist) == d # NaN /\ d > largestDist

----------------------------------------------------------------------------
(* next(): lines 189-217 *)

\* The state of next()'s loop: numTries, bestPoint, largestDist, and, as history,
\* the rng() values used and the candidates drawn so far, whether the loop
\* left by break, and whether it was left by an exception.
LoopStart ==
    [numTries |-> 0, bestPoint |-> Null, largestDist |-> NegInfinity,
     rolls |-> <<>>, drawn |-> <<>>, exited |-> FALSE, threw |-> FALSE]

\* _distanceToExisting calls _distance(p, candidate) for every p of
\* this.points, and _distance reads p[i]: a TypeError when p is null
DistanceThrows(pts) == \E i \in 1..Len(pts) : pts[i].kind = "null"

\* LoopBody without the break: the loop always uses up its tries
LoopBodyNoBreak(s, pts, st, us) ==
    LET candidate == SampleUniform(s, us)
        distToNearest == EffectiveDistance(s, pts, candidate)
        better == ExceedsLargest(distToNearest, st.largestDist)
    IN  [numTries |-> st.numTries + 1,
         bestPoint |-> IF better THEN Point(candidate) ELSE st.bestPoint,
         largestDist |-> IF better THEN distToNearest ELSE st.largestDist,
         rolls |-> Append(st.rolls, us),
         drawn |-> Append(st.drawn, candidate),
         exited |-> FALSE, threw |-> FALSE]

\* One pass of the loop body (lines 200-213) with the rng() values us, one per axis
LoopBody(s, pts, st, us) ==
    LET candidate == SampleUniform(s, us)
        distToNearest == EffectiveDistance(s, pts, candidate)
        better == ExceedsLargest(distToNearest, st.largestDist)
        break == ExceedsRadius(s, distToNearest)
    IN  IF DistanceThrows(pts)
        THEN [st EXCEPT !.rolls = Append(@, us),
                        !.drawn = Append(@, candidate), !.threw = TRUE]
        ELSE [numTries |-> IF break THEN st.numTries ELSE st.numTries + 1,
              bestPoint |-> IF better THEN Point(candidate) ELSE st.bestPoint,
              largestDist |-> IF better THEN distToNearest ELSE st.largestDist,
              rolls |-> Append(st.rolls, us),
              drawn |-> Append(st.drawn, candidate),
              exited |-> break, threw |-> FALSE]

\* what this.rng() may return, as k for k / steps
RngVals(s) == 0 .. (s.rng.steps - 1)

\* TryLoop with <= in the loop condition: one try more than this.tries
RECURSIVE TryLoopOneMore(_, _, _)
TryLoopOneMore(s, pts, st) ==
    IF st.exited \/ ~(st.numTries <= s.tries) THEN {st}
    ELSE UNION { TryLoopOneMore(s, pts, LoopBody(s, pts, st, us)) :
                    us \in [1..Len(s.extent) -> RngVals(s)] }

\* Every way the loop can run from st to its end, over what rng() may return
RECURSIVE TryLoop(_, _, _)
TryLoop(s, pts, st) ==
    IF st.exited \/ st.threw \/ ~(st.numTries < s.tries) THEN {st}
    ELSE UNION { TryLoop(s, pts, LoopBody(s, pts, st, us)) :
                    us \in [1..Len(s.extent) -> RngVals(s)] }

\* NextCall with the completion test one too late: it stops at n + 1 points
NextCallStopsLate(s, pts) ==
    IF Len(pts) = s.n + 1
    THEN { [points |-> pts, ret |-> Null, loop |-> LoopStart] }
    ELSE { [points |-> Append(pts, st.bestPoint), ret |-> st.bestPoint,
            loop |-> st] : st \in TryLoop(s, pts, LoopStart) }

\* NextCall with the completion test one too early: it stops at n - 1 points
NextCallStopsEarly(s, pts) ==
    IF Len(pts) >= s.n - 1
    THEN { [points |-> pts, ret |-> Null, loop |-> LoopStart] }
    ELSE { [points |-> Append(pts, st.bestPoint), ret |-> st.bestPoint,
            loop |-> st] : st \in TryLoop(s, pts, LoopStart) }

\* NextCall that runs the loop before the completion test: at n points it
\* still draws candidates, then returns null and pushes nothing
NextCallDrawsWhenFull(s, pts) ==
    IF Len(pts) = s.n
    THEN { [points |-> pts, ret |-> Null, loop |-> st] :
            st \in TryLoop(s, pts, LoopStart) }
    ELSE { [points |-> Append(pts, st.bestPoint), ret |-> st.bestPoint,
            loop |-> st] : st \in TryLoop(s, pts, LoopStart) }

\* NextCall with unshift in place of push: the new point goes in front
NextCallUnshifts(s, pts) ==
    IF Len(pts) = s.n
    THEN { [points |-> pts, ret |-> Null, loop |-> LoopStart] }
    ELSE { [points |-> <<st.bestPoint>> \o pts, ret |-> st.bestPoint,
            loop |-> st] : st \in TryLoop(s, pts, LoopStart) }

\* The runs of one next() call on a sampler holding pts: for each, the new
\* this.points, the returned value (or the exception thrown) and the loop's
\* final state
NextCall(s, pts) ==
    IF Len(pts) = s.n
    THEN { [points |-> pts, ret |-> Null, loop |-> LoopStart] }
    ELSE { IF st.threw
           THEN [points |-> pts, ret |-> TypeError, loop |-> st]
           ELSE [points |-> Append(pts, st.bestPoint), ret |-> st.bestPoint,
                 loop |-> st] : st \in TryLoop(s, pts, LoopStart) }

\* The record kept of a run: the points before it, the candidates drawn, and
\* whether the loop left by break
RunOf(pts, r) ==
    [before |-> pts, drawn |-> r.loop.drawn, exited |-> r.loop.exited]

NoRun == [before |-> <<>>, drawn |-> <<>>, exited |-> FALSE]

NoWork == [from |-> 0, steps |-> 0, drawn |-> 0]

NoOld == [live |-> FALSE]

\* lastOp, arg, ret and run record the operation that has just run.  They are
\* history, not fields of the object: the caller's next operation starts from
\* the object alone, after Forget has dropped the record.
Recorded == lastOp # "none"

----------------------------------------------------------------------------
(* The configurations *)

Dims == {1, 2}

UnitExtent(dim) ==
    IF dim = 1 THEN [form |-> "flat", pair |-> <<0, 1>>]
    ELSE [form |-> "nested", pairs |-> << <<0, 1>>, <<0, 1>> >>]

ExtentOptions(dim) ==
    IF dim = 1
    THEN { [form |-> "none"], UnitExtent(1) }
    ELSE { [form |-> "nested", pairs |-> << <<-1, 1>>, <<0, 1>> >>] }

\* options.periodic of the README, as one flag per axis
NotPeriodic(dim) == [i \in 1..dim |-> FALSE]

PeriodicOptions(dim) ==
    IF dim = 1 THEN { <<TRUE>> } ELSE { <<TRUE, FALSE>> }

\* The random source a sampler of dim dimensions is given
RngOf(dim) == [steps |-> IF dim = 1 THEN 2 * Grid ELSE Grid]

\* Every n, tries, repulsiveBoundary and extent without periodic, and the unit
\* extent with periodic and one try per point
Options ==
    UNION { { [n |-> n, dimensions |-> dim, extent |-> e, tries |-> t,
               repulsiveBoundary |-> rb, periodic |-> NotPeriodic(dim)] :
                n \in 1..MaxN, t \in 1..MaxTries, rb \in BOOLEAN,
                e \in ExtentOptions(dim) }
            \cup
            { [n |-> n, dimensions |-> dim, extent |-> UnitExtent(dim),
               tries |-> t, repulsiveBoundary |-> FALSE, periodic |-> per] :
                n \in 1..MaxN, t \in {1},
                per \in PeriodicOptions(dim) } :
            dim \in Dims }

\* The points a caller hands to addPoint: one coordinate, two coordinates
AddPointArgs == { <<0>>, <<0, 0>> }

----------------------------------------------------------------------------
(* The state machine *)

Init ==
    /\ ps \in { Poissimple(o, RngOf(o.dimensions)) : o \in Options }
    /\ points = <<>>
    /\ pc = "idle"
    /\ lastOp = "new"
    /\ arg = Undefined
    /\ ret = Undefined
    /\ run = NoRun
    /\ nextCalls = 0
    /\ filled = FALSE
    /\ fellBack = FALSE
    /\ old = NoOld
    /\ work = NoWork

\* ps.next()
Next_ ==
    /\ pc = "idle"
    /\ ~Recorded
    /\ nextCalls < MaxCalls
    /\ \E r \in NextCall(ps, points) :
         /\ points' = r.points
         /\ ret' = r.ret
         /\ run' = RunOf(points, r)
         /\ fellBack' =
              (fellBack \/ (Len(r.points) > Len(points) /\ ~r.loop.exited))
    /\ lastOp' = "next"
    /\ nextCalls' = IF filled THEN 0 ELSE nextCalls + 1
    /\ UNCHANGED <<ps, pc, arg, filled, work, old>>

\* ps.fill() is entered: the caller is now inside its while loop
FillCall ==
    /\ pc = "idle"
    /\ ~Recorded
    /\ pc' = "fill"
    /\ filled' = TRUE
    /\ nextCalls' = 0
    /\ UNCHANGED <<ps, points, lastOp, arg, ret, run, fellBack, work, old>>

\* one iteration of fill()'s loop: this.points.length < this.n, so this.next();
\* an exception of next() ends fill()
FillStep ==
    /\ pc = "fill"
    /\ ~Recorded
    /\ Len(points) < ps.n
    /\ \E r \in NextCall(ps, points) :
         /\ points' = r.points
         /\ run' = RunOf(points, r)
         /\ fellBack' =
              (fellBack \/ (Len(r.points) > Len(points) /\ ~r.loop.exited))
         /\ IF r.ret.kind = "TypeError"
            THEN pc' = "idle" /\ lastOp' = "fill" /\ ret' = r.ret
            ELSE pc' = pc /\ lastOp' = "fillNext" /\ ret' = ret
    /\ UNCHANGED <<ps, arg, nextCalls, filled, work, old>>

\* fill()'s loop condition is false: return this.points
FillReturn ==
    /\ pc = "fill"
    /\ ~Recorded
    /\ ~(Len(points) < ps.n)
    /\ pc' = "idle"
    /\ lastOp' = "fill"
    /\ ret' = PointList(points)
    /\ UNCHANGED <<ps, points, arg, run, nextCalls, filled, fellBack, work,
                   old>>

\* ps.getPoints()
GetPoints ==
    /\ pc = "idle"
    /\ ~Recorded
    /\ lastOp' = "getPoints"
    /\ ret' = PointList(points)
    /\ UNCHANGED <<ps, points, pc, arg, run, nextCalls, filled, fellBack,
                   work, old>>

\* ps.addPoint(point): the prototype defines no addPoint, so the call throws
\* TypeError (ps.addPoint is not a function) and nothing changes
AddPoint ==
    /\ pc = "idle"
    /\ ~Recorded
    /\ \E p \in AddPointArgs : arg' = Point(p)
    /\ lastOp' = "addPoint"
    /\ ret' = TypeError
    /\ UNCHANGED <<ps, points, pc, run, nextCalls, filled, fellBack, work,
                   old>>

\* Bookkeeping, not a step of the program: the record of the operation that
\* has just run is dropped, so that what one operation drew and returned does
\* not multiply the states that follow it.  The count of a fill()'s work is
\* kept while the caller is inside fill().
Forget ==
    /\ Recorded
    /\ lastOp' = "none"
    /\ arg' = Undefined
    /\ ret' = Undefined
    /\ run' = NoRun
    /\ work' = IF pc = "fill" THEN work ELSE NoWork
    /\ UNCHANGED <<ps, points, pc, nextCalls, filled, fellBack, old>>

Next ==
    Next_ \/ FillCall \/ FillStep \/ FillReturn \/ GetPoints \/ AddPoint
    \/ Forget

Spec == Init /\ [][Next]_vars

----------------------------------------------------------------------------
(* fill() with its work tallied *)

\* one-dimensional samplers on [0, 1], every n and tries
WorkOptions ==
    { [n |-> n, dimensions |-> 1, extent |-> UnitExtent(1), tries |-> t,
       repulsiveBoundary |-> rb, periodic |-> NotPeriodic(1)] :
        n \in 1..MaxN, t \in 1..MaxTries, rb \in BOOLEAN }

InitWork ==
    /\ ps \in { Poissimple(o, RngOf(o.dimensions)) : o \in WorkOptions }
    /\ points = <<>>
    /\ pc = "idle"
    /\ lastOp = "new"
    /\ arg = Undefined
    /\ ret = Undefined
    /\ run = NoRun
    /\ nextCalls = 0
    /\ filled = FALSE
    /\ fellBack = FALSE
    /\ old = NoOld
    /\ work = NoWork

\* FillCall, noting how many points the sampler holds
FillCallTallied ==
    /\ pc = "idle"
    /\ ~Recorded
    /\ pc' = "fill"
    /\ filled' = TRUE
    /\ nextCalls' = 0
    /\ work' = [from |-> Len(points), steps |-> 0, drawn |-> 0]
    /\ UNCHANGED <<ps, points, lastOp, arg, ret, run, fellBack, old>>

\* FillStep, counting the step and the candidates it drew
FillStepTallied ==
    /\ pc = "fill"
    /\ ~Recorded
    /\ Len(points) < ps.n
    /\ \E r \in NextCall(ps, points) :
         /\ points' = r.points
         /\ run' = RunOf(points, r)
         /\ fellBack' =
              (fellBack \/ (Len(r.points) > Len(points) /\ ~r.loop.exited))
         /\ work' = [work EXCEPT !.steps = @ + 1,
                                  !.drawn = @ + Len(r.loop.drawn)]
         /\ IF r.ret.kind = "TypeError"
            THEN pc' = "idle" /\ lastOp' = "fill" /\ ret' = r.ret
            ELSE pc' = pc /\ lastOp' = "fillNext" /\ ret' = ret
    /\ UNCHANGED <<ps, arg, nextCalls, filled, old>>

NextWork ==
    Next_ \/ FillCallTallied \/ FillStepTallied \/ FillReturn \/ Forget

\* ENABLED <<FillStepTallied>>_vars, written out: next() always has a run, and
\* the step changes lastOp
FillStepEnabled == pc = "fill" /\ ~Recorded /\ Len(points) < ps.n

\* fill() is one synchronous loop: once entered, its iterations and its return
\* are not put off for ever.  The last conjunct is WF_vars(FillStepTallied):
\* the step disables itself (it leaves a record), so weak fairness of it says
\* that it is disabled again and again.
WorkSpec ==
    /\ InitWork /\ [][NextWork]_vars
    /\ WF_vars(Forget) /\ WF_vars(FillReturn)
    /\ []<>~FillStepEnabled

----------------------------------------------------------------------------
(* The boundary-repulsion scenario: two points on [[0,1],[0,1]] with
   repulsiveBoundary, two tries per point, next() alone *)

RepelOptions ==
    [n |-> 2, dimensions |-> 2, extent |-> UnitExtent(2), tries |-> 2,
     repulsiveBoundary |-> TRUE, periodic |-> NotPeriodic(2)]

InitRepel ==
    /\ ps = Poissimple(RepelOptions, [steps |-> EdgeGrid])
    /\ points = <<>>
    /\ pc = "idle"
    /\ lastOp = "new"
    /\ arg = Undefined
    /\ ret = Undefined
    /\ run = NoRun
    /\ nextCalls = 0
    /\ filled = FALSE
    /\ fellBack = FALSE
    /\ old = NoOld
    /\ work = NoWork

NextRepel == Next_ \/ Forget

RepelSpec == InitRepel /\ [][NextRepel]_vars

----------------------------------------------------------------------------
(* Degenerate configurations: n = 0, dimensions = 0, an axis of zero span.
   The constructor (lines 99-116) has no validation and no throw: it returns
   a sampler for each of them.  One try per point, next() alone. *)

ZeroSpanExtent(dim) ==
    IF dim = 1 THEN [form |-> "flat", pair |-> <<0, 0>>]
    ELSE [form |-> "nested", pairs |-> << <<0, 0>>, <<0, 1>> >>]

DegenerateOptions ==
    { [n |-> n, dimensions |-> dim, extent |-> UnitExtent(dim), tries |-> 1,
       repulsiveBoundary |-> FALSE, periodic |-> NotPeriodic(dim)] :
        n \in {0}, dim \in Dims }
    \cup
    { [n |-> n, dimensions |-> dim, extent |-> ZeroSpanExtent(dim), tries |-> 1,
       repulsiveBoundary |-> FALSE, periodic |-> NotPeriodic(dim)] :
        n \in 1..MaxN, dim \in Dims }
    \cup
    { [n |-> n, dimensions |-> 0, extent |-> UnitExtent(2), tries |-> 1,
       repulsiveBoundary |-> FALSE, periodic |-> NotPeriodic(2)] :
        n \in 1..MaxN }

\* new Poissimple(o, rng) has returned; the record of the call holds o
InitDegenerate ==
    /\ \E o \in DegenerateOptions :
         /\ ps = Poissimple(o, RngOf(o.dimensions))
         /\ arg = OptionsArg(o)
    /\ points = <<>>
    /\ pc = "idle"
    /\ lastOp = "new"
    /\ ret = Undefined
    /\ run = NoRun
    /\ nextCalls = 0
    /\ filled = FALSE
    /\ fellBack = FALSE
    /\ old = NoOld
    /\ work = NoWork

NextDegenerate == Next_ \/ Forget

DegenerateSpec == InitDegenerate /\ [][NextDegenerate]_vars

----------------------------------------------------------------------------
(* The two ways of writing a 1-D extent: the flat pair [0, 1] and the array
   of arrays [[0, 1]] *)

NestedUnitExtent == [form |-> "nested", pairs |-> << <<0, 1>> >>]

ExtentFormOptions ==
    { [n |-> n, dimensions |-> 1, extent |-> e, tries |-> t,
       repulsiveBoundary |-> rb, periodic |-> NotPeriodic(1)] :
        n \in 1..MaxN, t \in 1..MaxTries, rb \in BOOLEAN,
        e \in { UnitExtent(1), NestedUnitExtent } }

InitExtentForm ==
    /\ ps \in { Poissimple(o, RngOf(o.dimensions)) : o \in ExtentFormOptions }
    /\ points = <<>>
    /\ pc = "idle"
    /\ lastOp = "new"
    /\ arg = Undefined
    /\ ret = Undefined
    /\ run = NoRun
    /\ nextCalls = 0
    /\ filled = FALSE
    /\ fellBack = FALSE
    /\ old = NoOld
    /\ work = NoWork

NextExtentForm ==
    Next_ \/ FillCall \/ FillStep \/ FillReturn \/ GetPoints \/ Forget

ExtentFormSpec == InitExtentForm /\ [][NextExtentForm]_vars

----------------------------------------------------------------------------
(* The older variant: PoisSimple, lines 2-82.  It is translated on its own
   from its own lines, for configurations with dimensions >= 2, where every
   entry of the extent is a pair of numbers. *)

OldDefaultTries == 30

\* line 5: Array(dimensions).fill().map(() => [-1, 1])
OldDefaultExtent(dimensions) == [i \in 1..dimensions |-> <<-1, 1>>]

\* lines 19-26
RECURSIVE OldVolumeFrom(_, _)
OldVolumeFrom(extent, i) ==
    IF i > Len(extent) THEN 1
    ELSE OldVolumeFrom(extent, i + 1) * (extent[i][2] - extent[i][1])

\* line 16, as the fraction of the scaled square of the radius
OldComputeLowerDistance(volume, n, dim, steps) ==
    [num |-> (PiNum * steps) * (PiNum * steps) * volume ^ (2 \div dim),
     den |-> (4 * PiDen) * (4 * PiDen) * n ^ (2 \div dim)]

\* lines 2-12: n and dimensions are taken as given
PoisSimple(options, rng) ==
    LET extent == IF options.extent.form = "none"
                  THEN OldDefaultExtent(options.dimensions)
                  ELSE options.extent.pairs
        volume == OldVolumeFrom(extent, 1)
    IN  [n |-> options.n,
         dim |-> options.dimensions,
         extent |-> extent,
         tries |-> IF options.tries = 0 THEN OldDefaultTries ELSE options.tries,
         rng |-> rng,
         volume |-> volume,
         radiusSq |-> OldComputeLowerDistance(volume, options.n,
                                              options.dimensions, rng.steps)]

\* line 29
OldSampleUniform(s, us) ==
    [i \in 1..Len(s.extent) |->
        s.rng.steps * s.extent[i][1]
        + us[i] * (s.extent[i][2] - s.extent[i][1])]

\* lines 32-35, squared
RECURSIVE OldSumSquares(_, _, _)
OldSumSquares(p1, p2, i) ==
    IF i = 0 THEN 0
    ELSE OldSumSquares(p1, p2, i - 1) + (p2[i] - p1[i]) * (p2[i] - p1[i])

\* lines 37-44: minDistance after the first i points
RECURSIVE OldDistanceToExisting(_, _, _, _)
OldDistanceToExisting(s, pts, candidate, i) ==
    IF i = 0 THEN PosInfinity
    ELSE LET minDistance == OldDistanceToExisting(s, pts, candidate, i - 1)
             currentDistance == OldSumSquares(pts[i].val, candidate, s.dim)
         IN  IF currentDistance < minDistance THEN currentDistance
             ELSE minDistance

\* the loop state of the older next(): lines 49-51
OldLoopStart ==
    [numTries |-> 0, bestPoint |-> Null, largestDist |-> NegInfinity,
     used |-> 0, exited |-> FALSE]

\* OldLoopBody without line 64
OldLoopBodyNoBreak(s, pts, st, us) ==
    LET candidate == OldSampleUniform(s, us)
        distToNearest == OldDistanceToExisting(s, pts, candidate, Len(pts))
        st1 == IF distToNearest > st.largestDist
               THEN [st EXCEPT !.bestPoint = Point(candidate),
                               !.largestDist = distToNearest]
               ELSE st
    IN  [st1 EXCEPT !.numTries = @ + 1, !.used = @ + 1]

\* lines 57-65
OldLoopBody(s, pts, st, us) ==
    LET candidate == OldSampleUniform(s, us)
        distToNearest == OldDistanceToExisting(s, pts, candidate, Len(pts))
        st1 == IF distToNearest > st.largestDist
               THEN [st EXCEPT !.bestPoint = Point(candidate),
                               !.largestDist = distToNearest]
               ELSE st
    IN  IF distToNearest = PosInfinity
           \/ distToNearest * s.radiusSq.den > s.radiusSq.num
        THEN [st1 EXCEPT !.exited = TRUE, !.used = @ + 1]
        ELSE [st1 EXCEPT !.numTries = @ + 1, !.used = @ + 1]

\* lines 56-66 on the rng() values of rolls, one entry per candidate: the
\* loop's final state, and whether it was left wanting a value
RECURSIVE OldTryLoop(_, _, _, _)
OldTryLoop(s, pts, st, rolls) ==
    IF st.exited \/ ~(st.numTries < s.tries) THEN [loop |-> st, starved |-> FALSE]
    ELSE IF st.used = Len(rolls) THEN [loop |-> st, starved |-> TRUE]
    ELSE OldTryLoop(s, pts, OldLoopBody(s, pts, st, rolls[st.used + 1]), rolls)

\* lines 46-69: the older sampler o after next() on the values of rolls
OldNext(o, rolls) ==
    IF Len(o.points) = o.ps.n
    THEN [o EXCEPT !.ret = Null, !.starved = FALSE, !.left = Len(rolls)]
    ELSE LET end == OldTryLoop(o.ps, o.points, OldLoopStart, rolls)
         IN  [o EXCEPT !.points = Append(@, end.loop.bestPoint),
                       !.ret = end.loop.bestPoint,
                       !.starved = end.starved,
                       !.left = Len(rolls) - end.loop.used]

\* the same explicit n, dimensions >= 2, extent and tries for both variants
VariantOptions ==
    { [n |-> n, dimensions |-> 2, extent |-> e, tries |-> t] :
        n \in 1..MaxN, t \in 1..MaxTries,
        e \in { [form |-> "none"] } \cup ExtentOptions(2) }

\* the options of the newer variant: those, and repulsiveBoundary false
NewerOptions(o) ==
    [n |-> o.n, dimensions |-> o.dimensions, extent |-> o.extent,
     tries |-> o.tries, repulsiveBoundary |-> FALSE,
     periodic |-> NotPeriodic(o.dimensions)]

InitVariants ==
    /\ \E o \in VariantOptions :
         /\ ps = Poissimple(NewerOptions(o), RngOf(o.dimensions))
         /\ old = [live |-> TRUE, ps |-> PoisSimple(o, RngOf(o.dimensions)),
                   points |-> <<>>, ret |-> Undefined,
                   starved |-> FALSE, left |-> 0]
    /\ points = <<>>
    /\ pc = "idle"
    /\ lastOp = "new"
    /\ arg = Undefined
    /\ ret = Undefined
    /\ run = NoRun
    /\ nextCalls = 0
    /\ filled = FALSE
    /\ fellBack = FALSE
    /\ work = NoWork

\* next() on both samplers; the older one is fed the values the newer one used
NextBoth ==
    /\ pc = "idle"
    /\ ~Recorded
    /\ nextCalls < MaxCalls
    /\ \E r \in NextCall(ps, points) :
         /\ points' = r.points
         /\ ret' = r.ret
         /\ run' = RunOf(points, r)
         /\ fellBack' =
              (fellBack \/ (Len(r.points) > Len(points) /\ ~r.loop.exited))
         /\ old' = OldNext(old, r.loop.rolls)
    /\ lastOp' = "next"
    /\ nextCalls' = nextCalls + 1
    /\ UNCHANGED <<ps, pc, arg, filled, work>>

NextVariants == NextBoth \/ Forget

VariantSpec == InitVariants /\ [][NextVariants]_vars

----------------------------------------------------------------------------
(* Properties *)

\* v is a point of the sampler's dimensionality inside its extent
InExtent(v) ==
    /\ v.kind = "point"
    /\ Len(v.val) = ps.dim
    /\ \A i \in 1..Len(v.val) :
         /\ ps.extent[i][1] * ps.rng.steps <= v.val[i]
         /\ v.val[i] <= ps.extent[i][2] * ps.rng.steps

\* fill() has just returned
FillReturned == lastOp = "fill" /\ ret.kind = "points"

\* C1: after any sequence of next, fill, addPoint and getPoints the number of
\* accepted points is at most n, and it is exactly n when fill() returns.
C1_AtMostN ==
    /\ Len(points) <= ps.n
    /\ FillReturned => Len(points) = ps.n /\ Len(ret.val) = ps.n

\* fill() returned n > 1 points
C1_Witness ==
    FillReturned /\ ps.n > 1 /\ Len(ret.val) = ps.n /\ ret.val = points

\* C2: on a fresh sampler driven by next() alone, the first n calls return a
\* point and every later call returns null.
C2_FirstNThenNull ==
    (lastOp = "next" /\ ~filled) =>
        /\ nextCalls <= ps.n => ret.kind = "point"
        /\ nextCalls > ps.n => ret = Null

\* the second call past n has returned null
C2_Witness ==
    lastOp = "next" /\ ~filled /\ ps.n > 1 /\ nextCalls = ps.n + 2 /\ ret = Null

\* C3: every point next() returns and every element of fill()'s result has
\* `dimensions` coordinates, each within its axis's extent.
C3_PointsInExtent ==
    /\ (lastOp = "next" /\ ret # Null) => InExtent(ret)
    /\ FillReturned => \A i \in 1..Len(ret.val) : InExtent(ret.val[i])
    /\ \A i \in 1..Len(points) : InExtent(points[i])

\* a 2-D fill() returned two points, one of them off the lower corner
C3_Witness ==
    /\ FillReturned /\ ps.dim = 2 /\ Len(ret.val) = 2
    /\ \E i \in 1..2 : ret.val[i].val[1] > ps.extent[1][1] * ps.rng.steps

----------------------------------------------------------------------------
(* The run of next() on record *)

\* a generation step has just run
Stepped == run.drawn # <<>>

\* the effective distance of the j-th candidate of the recorded run
Eff(j) == EffectiveDistance(ps, run.before, run.drawn[j])

\* the recorded run accepted its j-th candidate
AcceptedIs(j) ==
    /\ points = Append(run.before, Point(run.drawn[j]))
    /\ lastOp = "next" => ret = Point(run.drawn[j])

\* twice p's distance to each edge of the extent is more than (at least) the radius
ClearOfEdges(p, strict) ==
    \A i \in 1..Len(p) :
        LET lo == 2 * (p[i] - ps.extent[i][1] * ps.rng.steps)
            hi == 2 * (ps.extent[i][2] * ps.rng.steps - p[i])
        IN  IF strict
            THEN /\ lo * lo * ps.radiusSq.den > ps.radiusSq.num
                 /\ hi * hi * ps.radiusSq.den > ps.radiusSq.num
            ELSE /\ lo * lo * ps.radiusSq.den >= ps.radiusSq.num
                 /\ hi * hi * ps.radiusSq.den >= ps.radiusSq.num

----------------------------------------------------------------------------
(* The distance of the README's periodic option *)

\* the contribution of one axis: min(|d|, span - |d|) on a periodic axis
AxisContribution(d, span, periodic) ==
    IF periodic THEN Min2(Abs(d), span - Abs(d)) ELSE Abs(d)

RECURSIVE WrappedSumSquares(_, _, _)
WrappedSumSquares(p1, p2, i) ==
    IF i > ps.dim THEN 0
    ELSE LET span == (ps.extent[i][2] - ps.extent[i][1]) * ps.rng.steps
             c == AxisContribution(p2[i] - p1[i], span, ps.periodicOption[i])
         IN  c * c + WrappedSumSquares(p1, p2, i + 1)

RECURSIVE WrappedNearestFrom(_, _, _)
WrappedNearestFrom(pts, candidate, i) ==
    IF i > Len(pts) THEN PosInfinity
    ELSE Min2(WrappedSumSquares(pts[i].val, candidate, 1),
              WrappedNearestFrom(pts, candidate, i + 1))

WrappedEffective(pts, candidate) ==
    LET d == WrappedNearestFrom(pts, candidate, 1)
        b == DistanceToBoundary(ps, candidate)
    IN  IF ps.repulsiveBoundary THEN Min2(d, (2 * b) * (2 * b)) ELSE d

\* C4: with periodic set for an axis, the distance that accepts or rejects a
\* candidate wraps on that axis (min(|d|, span - |d|)), per axis: a candidate
\* ends the loop by early exit exactly when its wrapped distance exceeds the
\* radius.
C4_PeriodicDistanceUsed ==
    Stepped =>
        \A j \in 1..Len(run.drawn) :
            ExceedsRadius(ps, WrappedEffective(run.before, run.drawn[j]))
                <=> (j = Len(run.drawn) /\ run.exited)

\* C5: addPoint(p) with `dimensions` coordinates appends p and changes nothing
\* else in the collection; with another coordinate count it fails and leaves
\* the collection unchanged.
C5_AddPointAppends ==
    [][lastOp' = "addPoint" =>
          IF Len(arg'.val) = ps.dim
          THEN points' = Append(points, arg') /\ ret' # TypeError
          ELSE points' = points /\ ret' = TypeError]_vars

\* C6 as claimed: on the first generation step, for any flag settings, the
\* first candidate drawn is accepted on try 1.
C6_FirstAcceptedAnyFlags ==
    (Stepped /\ run.before = <<>>) =>
        Len(run.drawn) = 1 /\ AcceptedIs(1)

\* C6 as amended: on the first generation step with repulsiveBoundary false
\* the first candidate drawn is accepted on try 1; with repulsiveBoundary true
\* it is accepted on try 1 exactly when it is clear of the edges (or tries is
\* 1); with n = 1, fill() returns exactly one point.
C6_FirstAccepted ==
    /\ (Stepped /\ run.before = <<>> /\ ~ps.repulsiveBoundary) =>
           Len(run.drawn) = 1 /\ AcceptedIs(1)
    /\ (Stepped /\ run.before = <<>> /\ ps.repulsiveBoundary) =>
           (Len(run.drawn) = 1
              <=> (ClearOfEdges(run.drawn[1], TRUE) \/ ps.tries = 1))
    /\ (FillReturned /\ ps.n = 1) => Len(ret.val) = 1

\* the first next() of a sampler with tries > 1 and no repulsive boundary
\* returned after one candidate
C6_Witness ==
    /\ Stepped /\ run.before = <<>> /\ lastOp = "next"
    /\ ~ps.repulsiveBoundary /\ ps.tries > 1 /\ Len(run.drawn) = 1

IsEarliestLargest(b) ==
    /\ \A j \in 1..Len(run.drawn) : Eff(j) <= Eff(b)
    /\ \A j \in 1..(b - 1) : Eff(j) < Eff(b)

\* C10: when no candidate of a step exceeds the radius, next() draws exactly
\* tries candidates and accepts the one with the largest effective distance,
\* the earliest drawn among ties; the accepted value is never null.
C10_BestEffortFallback ==
    Stepped =>
        /\ points[Len(points)].kind = "point"
        /\ (\A j \in 1..Len(run.drawn) : ~ExceedsRadius(ps, Eff(j))) =>
               /\ Len(run.drawn) = ps.tries
               /\ ~run.exited
               /\ \E b \in 1..Len(run.drawn) :
                      IsEarliestLargest(b) /\ AcceptedIs(b)

\* a step fell back after two different candidates tied for the largest
\* effective distance, and accepted the first of them
C10_Witness ==
    /\ Stepped /\ ~run.exited /\ run.before # <<>>
    /\ \E i, j \in 1..Len(run.drawn) :
          /\ i < j /\ run.drawn[i] # run.drawn[j] /\ Eff(i) = Eff(j)
          /\ IsEarliestLargest(i) /\ AcceptedIs(i)

----------------------------------------------------------------------------
(* Frame conditions *)

\* C12: a next() call made when the collection already holds n points returns
\* null, leaves the collection unchanged and draws nothing from the random
\* source.
C12_NextWhenFullIsNoOp ==
    (lastOp = "next" /\ Len(run.before) = ps.n) =>
        /\ ret = Null
        /\ points = run.before
        /\ run.drawn = <<>>

\* next() was called on a sampler that already held its n > 1 points
C12_Witness ==
    /\ lastOp = "next" /\ ps.n > 1 /\ Len(run.before) = ps.n
    /\ ret = Null /\ points = run.before

\* the collection after a step is the collection before it, or that with one
\* element appended; a next() that returns a point has appended that point
AppendStep ==
    /\ \/ points' = points
       \/ /\ Len(points') = Len(points) + 1
          /\ SubSeq(points', 1, Len(points)) = points
          /\ lastOp' \in {"next", "fillNext"}
    /\ (lastOp' = "next" /\ ret'.kind = "point") => points' = Append(points, ret')
    /\ lastOp' \in {"fill", "getPoints", "addPoint", "none"} => points' = points

\* C13: the collection is empty after construction; each next() that returns
\* a point keeps the previous collection as a prefix and appends exactly the
\* returned point; no operation removes, reorders or modifies an accepted
\* point.
C13_AppendOnly ==
    /\ points = <<>>
    /\ [][AppendStep]_vars

\* next() returned a point that is now last, after the earlier points
C13_Witness ==
    /\ lastOp = "next" /\ ret.kind = "point" /\ run.before # <<>>
    /\ points = Append(run.before, ret)
    /\ ret # run.before[1]

----------------------------------------------------------------------------
(* Bounded work *)

\* what C14 says of every state: a step draws at most tries candidates; a
\* fill() called with k points has, when it returns, run n - k steps, drawn
\* at most (n - k) * tries candidates, and returns the n points
BoundedWork ==
    /\ Stepped => Len(run.drawn) <= ps.tries
    /\ (pc = "fill" \/ FillReturned) =>
          /\ work.from <= ps.n
          /\ work.steps = Len(points) - work.from
          /\ work.drawn <= work.steps * ps.tries
    /\ FillReturned =>
          /\ work.steps = ps.n - work.from
          /\ work.drawn <= (ps.n - work.from) * ps.tries
          /\ ret = PointList(points)
          /\ Len(points) = ps.n

\* C14: every next() call draws at most tries candidates, and fill() called
\* on a sampler holding k <= n points terminates after exactly n - k
\* generation steps (at most (n - k) * tries candidates) and returns the
\* collection of n points.
C14_BoundedWork ==
    /\ []BoundedWork
    /\ (pc = "fill") ~> FillReturned

\* a fill() called with one point of n > 1 returned after n - 1 steps, one of
\* which drew more than one candidate
C14_Witness ==
    /\ FillReturned /\ ps.n > 1 /\ work.from = 1
    /\ work.steps = ps.n - 1 /\ work.drawn > work.steps

----------------------------------------------------------------------------
(* Separation *)

\* the plain distance between p and q is strictly greater than the radius
FartherThanRadius(p, q) ==
    SumSquares(p, q, 1, ps.dim) * ps.radiusSq.den > ps.radiusSq.num

\* C17: with repulsiveBoundary false, a point accepted by early exit is at
\* distance strictly greater than the radius from every point accepted before
\* it; hence, as long as no step has fallen back, all accepted points are
\* pairwise farther apart than the radius.
C17_EarlyExitSeparated ==
    ~ps.repulsiveBoundary =>
        /\ (Stepped /\ run.exited) =>
              \A i \in 1..Len(run.before) :
                  FartherThanRadius(run.before[i].val, points[Len(points)].val)
        /\ ~fellBack =>
              \A i, j \in 1..Len(points) :
                  i < j => FartherThanRadius(points[i].val, points[j].val)

\* without repulsiveBoundary and without any fallback so far, a step next to
\* an earlier point drew a candidate too close to it, then one far enough,
\* and left by break
C17_Witness ==
    /\ ~ps.repulsiveBoundary /\ ~fellBack /\ Stepped /\ run.exited
    /\ run.before # <<>> /\ Len(run.drawn) > 1
    /\ ~FartherThanRadius(run.before[1].val, run.drawn[1])
    /\ points = Append(run.before, Point(run.drawn[Len(run.drawn)]))

----------------------------------------------------------------------------
(* Boundary repulsion *)

\* the j-th candidate of the recorded run: its scaled distance to the nearest
\* edge, and its squared distance to the nearest earlier point
EdgeDist(j) == DistanceToBoundary(ps, run.drawn[j])
Nearest(j) == DistanceToExisting(ps, run.before, run.drawn[j])

\* the j-th candidate is within radius/4 of an edge
NearEdge(j) ==
    16 * EdgeDist(j) * EdgeDist(j) * ps.radiusSq.den <= ps.radiusSq.num

\* the recorded step was offered candidates a and b: a within radius/4 of an
\* edge, b farther from the edge, both as near to the earlier points
OfferedNearAndFar(a, b) ==
    /\ Len(run.drawn) = 2 /\ a # b
    /\ NearEdge(a) /\ EdgeDist(b) > EdgeDist(a)
    /\ Nearest(a) = Nearest(b)

\* min(nearest-neighbour distance, 2 x edge distance) > radius, said without
\* the minimum: the candidate is farther than the radius from every earlier
\* point and more than radius/2 from every edge
BothExceedRadius(j) ==
    /\ \A i \in 1..Len(run.before) :
          FartherThanRadius(run.before[i].val, run.drawn[j])
    /\ ClearOfEdges(run.drawn[j], TRUE)

\* C11 as claimed: with repulsiveBoundary on [[0,1],[0,1]], a step offered a
\* candidate within radius/4 of an edge and a candidate farther from the edge
\* with the same nearest-neighbour distance accepts the farther one, whichever
\* is drawn first.
C11_FartherAlwaysWins ==
    (ps.repulsiveBoundary /\ Stepped) =>
        \A a, b \in 1..2 : OfferedNearAndFar(a, b) => AcceptedIs(b)

\* C11 as amended: the effective distance is min(nearest-neighbour distance,
\* 2 x edge distance): a candidate ends the step exactly when both exceed the
\* radius.  A step offered a candidate within radius/4 of an edge and a
\* farther one with the same nearest-neighbour distance accepts the farther
\* one, whichever is drawn first, when that distance is greater than twice the
\* near candidate's edge distance; otherwise the two tie and the one drawn
\* first is accepted.
C11_BoundaryRepulsion ==
    (ps.repulsiveBoundary /\ Stepped) =>
        /\ \A j \in 1..Len(run.drawn) :
              BothExceedRadius(j) <=> (j = Len(run.drawn) /\ run.exited)
        /\ \A a, b \in 1..2 :
              OfferedNearAndFar(a, b) =>
                  IF Nearest(a) > (2 * EdgeDist(a)) * (2 * EdgeDist(a))
                  THEN AcceptedIs(b)
                  ELSE AcceptedIs(1)

\* next to an earlier point, a step drew a candidate off the edge but within
\* radius/4 of it, then a farther one as near to the earlier point, and
\* accepted the second
C11_Witness ==
    /\ ps.repulsiveBoundary /\ Stepped /\ run.before # <<>>
    /\ OfferedNearAndFar(1, 2) /\ EdgeDist(1) > 0
    /\ Nearest(1) > (2 * EdgeDist(1)) * (2 * EdgeDist(1))
    /\ AcceptedIs(2)

----------------------------------------------------------------------------
(* Configuration errors *)

\* the call on record threw
Threw == ret.kind \in {"TypeError", "RangeError", "Error"}

\* o has n <= 0, dimensions <= 0, or an axis whose span is zero or negative
IsDegenerate(o) ==
    \/ o.n <= 0
    \/ o.dimensions <= 0
    \/ o.extent.form = "flat" /\ o.extent.pair[2] <= o.extent.pair[1]
    \/ /\ o.extent.form = "nested"
       /\ \E i \in 1..Len(o.extent.pairs) :
             o.extent.pairs[i][2] <= o.extent.pairs[i][1]

\* C15: constructing a sampler with a degenerate configuration (n <= 0, an
\* axis of zero or negative span, dimensions <= 0) ends in an error at
\* construction; no sampler that later produces points is created.  Every
\* sampler of DegenerateSpec is built from such a configuration.
C15_DegenerateRejected ==
    /\ (lastOp = "new" /\ IsDegenerate(arg.val)) => Threw
    /\ points = <<>>

----------------------------------------------------------------------------
(* The form of a 1-D extent *)

\* the sampler that the same options give with the extent written flat
FlatTwin ==
    Poissimple([n |-> ps.n, dimensions |-> ps.dim,
                extent |-> UnitExtent(1), tries |-> ps.tries,
                repulsiveBoundary |-> ps.repulsiveBoundary,
                periodic |-> ps.periodicOption], ps.rng)

\* C16: for dimensions = 1 the extent [[lower, upper]] is normalised to the
\* same per-axis extent as [lower, upper]: the sampler has the same extent,
\* volume and radius, hands out what the flat sampler can hand out from the
\* same collection, and every point lies inside [lower, upper].
C16_NestedAsFlat ==
    (ps.dim = 1 /\ ps.extentForm = "nested") =>
        /\ Len(ps.extent[1]) = Len(FlatTwin.extent[1])
        /\ ps.extent = FlatTwin.extent
        /\ ps.volume = FlatTwin.volume
        /\ ps.radiusSq = FlatTwin.radiusSq
        /\ lastOp = "next" =>
              \E r \in NextCall(FlatTwin, run.before) :
                  r.ret = ret /\ r.points = points
        /\ \A i \in 1..Len(points) : InExtent(points[i])

----------------------------------------------------------------------------
(* The two variants *)

\* C18: the older PoisSimple and the newer Poissimple with repulsiveBoundary
\* false, built with the same explicit n, dimensions >= 2, extent and tries
\* and fed the same random values, return the same point or null at every
\* next() call and hold the same points after every call; the older one uses
\* exactly the values the newer one used.
C18_VariantsAgree ==
    old.live =>
        /\ old.points = points
        /\ lastOp = "next" =>
              /\ old.ret = ret
              /\ ~old.starved
              /\ old.left = 0
        /\ old.ps.n = ps.n /\ old.ps.tries = ps.tries
        /\ old.ps.extent = ps.extent /\ old.ps.radiusSq = ps.radiusSq

\* both variants, next to an earlier point, fell back on the same best
\* candidate after using up their tries on different candidates
C18_Witness ==
    /\ old.live /\ lastOp = "next" /\ ret.kind = "point" /\ old.ret = ret
    /\ run.before # <<>> /\ ~run.exited
    /\ Len(run.drawn) > 1 /\ run.drawn[1] # run.drawn[2]
    /\ old.points = points

====
